---- MODULE Spec2Model ----
(***************************************************************************)
(* Browser pool (core/scraper.py), capture session and deadline wrapper    *)
(* (core/capture.py, core/scraper.py) and traversal-safe path resolution   *)
(* of the evidence store (core/capture.py).                                *)
(***************************************************************************)
EXTENDS Integers, Sequences, FiniteSets, TLC

\* ------------------------------------------------------------- bounds
NumWorkers == 2
MaxCalls == 2
MaxLaunch == 2
MaxClock == 300
TickStep == 150
MaxTicks == 2
MaxSegs == 3
MaxHops == 4
MaxPieces == 3
MaxNames == 2
MaxNow == 13
MaxRaceOps == 2
TicksPerSecond == 12

\* ------------------------------------------------- program constants
BROWSER_MAX_AGE == 300
CaptureTimeoutMs == 30000
ScrapeTimeoutMs == 15000
MAX_FILENAME_LENGTH == 200
MAX_UPLOAD_SIZE == 50 * 1024 * 1024
ALLOWED_EVIDENCE_TYPES ==
    {"screenshot", "document", "page_archive", "video", "other"}
ALLOWED_UPLOAD_EXTENSIONS ==
    {".png", ".jpg", ".jpeg", ".gif", ".webp", ".svg",
     ".pdf", ".doc", ".docx", ".xls", ".xlsx",
     ".html", ".htm", ".mhtml",
     ".mp4", ".mov", ".webm",
     ".json", ".csv", ".txt", ".md"}

Workers == 1..NumWorkers
Closer == 0
Handles == 1..MaxLaunch
Statuses == {0, 200, 400}
Outcomes == {"ok", "fail", "deadline"}

VARIABLES
    clock,      \* time.time(), in seconds
    lock,       \* holder of _browser_lock: a worker, Closer, or -1 when free
    pool,       \* _browser_instances: tid -> entry
    started,    \* playwright drivers started (handle ids)
    launched,   \* browsers launched (handle ids)
    launchedBy, \* handle id -> the worker whose _get_browser launched it
    connected,  \* browsers for which is_connected() is true
    closeTried, \* browsers on which close() was called
    stopTried,  \* drivers on which stop() was called
    nextId,     \* next handle id
    wk,         \* per worker: the frame of the call in progress
    calls,      \* per worker: calls started so far
    result,     \* per worker: what the last synchronous call delivered
    openCtx,    \* browser contexts currently open, <<worker, call>>
    disk,       \* files under the evidence root, <<worker, call, type>>
    db,         \* evidence records registered through db.add_evidence
    cs,         \* close_browser_sync frame
    fsLinks,    \* symbolic links of the file system: place -> target
    pathRes,    \* the last evidence_path_absolute call: argument and outcome
    fsDirs,     \* directories of the file system (absolute paths)
    fsData,     \* regular files of the file system: absolute path -> content
    stRes,      \* the last evidence-store call: arguments and outcome
    gen,        \* _generate_filename: the clock and the calls made
    th          \* per thread: the store_file or delete_file call in progress

poolVars == <<clock, lock, pool, started, launched, launchedBy, connected,
              closeTried, stopTried, nextId, wk, calls, result, openCtx,
              disk, db, cs>>
pathVars == <<fsLinks, pathRes>>
storeVars == <<fsDirs, fsData, stRes, gen, th>>

\* --------------------------------------------------------------- values
NoEntry == [h |-> 0, created_at |-> 0]
Entry(h, t) == [h |-> h, created_at |-> t]

NoErr == [tag |-> "none", code |-> 0, cause |-> "none"]
ErrHTTP(s) == [tag |-> "HTTP", code |-> s, cause |-> "none"]
ErrLaunch(c) == [tag |-> "Browser launch failed", code |-> 0, cause |-> c]
ErrExc(c) == [tag |-> "str(e)", code |-> 0, cause |-> c]
ErrDeadline(op) ==
    IF op = "capture"
    THEN [tag |-> "Capture deadline exceeded",
          code |-> (CaptureTimeoutMs * 2) \div 1000, cause |-> "none"]
    ELSE [tag |-> "Scrape deadline exceeded",
          code |-> (ScrapeTimeoutMs * 2) \div 1000, cause |-> "none"]

NoMeta == [keys |-> {}, status_code |-> -1]
InitMeta == [keys |-> {"viewport_width", "viewport_height", "full_page"},
             status_code |-> -1]

Result(kind, ok, err, paths, meta) ==
    [kind |-> kind, success |-> ok, error |-> err, paths |-> paths,
     meta |-> meta, ids |-> <<>>]
NoResult == Result("none", FALSE, NoErr, <<>>, NoMeta)
Cancelled == Result("cancel", FALSE, NoErr, <<>>, NoMeta)
RaisedResult(c) == Result("raised", FALSE, ErrExc(c), <<>>, NoMeta)

\* An event loop object is named by the thread and the call that created it.
NoLoop == <<0, 0>>

IdleFrame ==
    [pc |-> "idle", op |-> "none", save_html |-> FALSE,
     now |-> 0, entry |-> NoEntry, pw |-> 0, browser |-> 0, reused |-> FALSE,
     old |-> 0, nav |-> -1, cancelled |-> FALSE,
     ctx |-> FALSE,
     pending |-> NoResult, meta |-> NoMeta, paths |-> <<>>,
     launches |-> 0, extracted |-> {}, stored |-> {},
     loop |-> NoLoop, prev |-> NoLoop]

\* threading.get_ident(): distinct live threads have distinct idents
TidShared(w) == 1
Tid(w) == w

IdleCloser ==
    [pc |-> "idle", entries |-> <<>>, i |-> 0, overlap |-> FALSE,
     closed |-> {}, stopped |-> {}, failed |-> {}]

\* ---------------------------------------------------------- evidence paths
\* A path is the sequence of its components; an absolute one starts at "/".
\* EVIDENCE_DIR = DATA_DIR / "evidence"
EVIDENCE_DIR == <<"data", "evidence">>
RelPath(abs, segs) == [abs |-> abs, segs |-> segs]
NoLink == RelPath(FALSE, <<"#none">>)
NoOutcome == [raised |-> FALSE, path |-> <<"#none">>]
NoCall == [arg |-> RelPath(FALSE, <<>>), out |-> NoOutcome]
Segs == {"1", "..", ".", "ln", "data", "evidence"}
RelPaths ==
    {RelPath(a, s) : a \in BOOLEAN,
                     s \in UNION {[1..n -> Segs] : n \in 0..MaxSegs}}
\* Where the environment may put a symbolic link, and what it may point to.
LinkPlaces == {<<"data">>, <<"data", "evidence", "ln">>, <<"mnt", "evidence", "ln">>}
LinkTargets ==
    {RelPath(TRUE, <<"mnt">>), RelPath(TRUE, <<"etc">>),
     RelPath(FALSE, <<"..", "..", "etc">>), RelPath(FALSE, <<"1">>),
     RelPath(TRUE, <<"data", "evidence", "1">>)}

\* file contents; the arguments and outcome of an evidence-store call
Blob(bytes, len) == [bytes |-> bytes, len |-> len]
NoBlob == Blob("none", 0)

Prefixes(p) == {SubSeq(p, 1, k) : k \in 0..Len(p)}
Called(op, pid, eid, type, filename, original, data) ==
    [op |-> op, pid |-> pid, eid |-> eid, type |-> type,
     filename |-> filename, original |-> original, data |-> data,
     raised |-> FALSE, ok |-> FALSE, error |-> "",
     path |-> RelPath(FALSE, <<>>), registered |-> FALSE]
NoStore == Called("none", "", "", "", RelPath(FALSE, <<>>), <<"">>, NoBlob)

\* Threads that use the evidence store at the same time, and the frame of a
\* store_file or delete_file call: the file it is about, the parent the
\* pruning loop has reached, how the call ended.
RaceThreads == {1, 2}
IdleThread ==
    [pc |-> "idle", op |-> "none", file |-> <<>>, i |-> 0,
     raised |-> "", ret |-> FALSE, n |-> 0]

CtxOf(w) == <<w, calls[w]>>
PathOf(w, type) == <<w, calls[w], type>>

Init ==
    /\ clock = 0
    /\ lock = -1
    /\ pool = [t \in Workers |-> NoEntry]
    /\ started = {}
    /\ launched = {}
    /\ launchedBy = [h \in Handles |-> 0]
    /\ connected = {}
    /\ closeTried = {}
    /\ stopTried = {}
    /\ nextId = 1
    /\ wk = [w \in Workers |-> IdleFrame]
    /\ calls = [w \in Workers |-> 0]
    /\ result = [w \in Workers |-> NoResult]
    /\ openCtx = {}
    /\ disk = {}
    /\ db = {}
    /\ cs = IdleCloser
    /\ fsLinks = [p \in LinkPlaces |-> NoLink]
    /\ pathRes = NoCall
    /\ fsDirs = Prefixes(EVIDENCE_DIR)
    /\ fsData = <<>>
    /\ stRes = NoStore
    /\ gen = [now |-> 0, log |-> <<>>]
    /\ th = [t \in RaceThreads |-> IdleThread]

\* ------------------------------------------------------------ helpers
Range(s) == {s[i] : i \in DOMAIN s}

SetFrame(w, f) == wk' = [wk EXCEPT ![w] = f]

\* A driver call made on a browser that is gone cannot succeed.
OutcomesOn(b) == IF b \in connected THEN Outcomes ELSE Outcomes \ {"ok"}

\* capture_website, after run_until_complete: hand the result to the caller,
\* registering one evidence record per stored path when db is given and the
\* capture succeeded.  scrape_page hands the ScrapedPage over as it is.
\* (The db argument is read here and nowhere else; it is drawn here.)
DeliverFrom(w, f, r) ==
    \E usedb \in (IF f.op = "capture" /\ r.kind = "result" /\ r.success
                   THEN BOOLEAN ELSE {FALSE}) :
       /\ result' = [result EXCEPT
                        ![w] = IF usedb THEN [r EXCEPT !.ids = r.paths] ELSE r]
       /\ db' = IF usedb THEN db \cup Range(r.paths) ELSE db
       /\ SetFrame(w, [f EXCEPT !.pc = "idle", !.pending = NoResult,
                                !.meta = NoMeta, !.paths = <<>>,
                                !.now = 0, !.entry = NoEntry, !.pw = 0,
                                !.browser = 0])

Deliver(w, r) == DeliverFrom(w, wk[w], r)

\* asyncio.wait_for timed out and the task ended with CancelledError.
DeadlineResult(w) == Result("result", FALSE, ErrDeadline(wk[w].op), <<>>, NoMeta)

\* The outer deadline fires while the session is suspended outside its try
\* block: CancelledError leaves the coroutine, wait_for raises TimeoutError.
Expire(w, f) == DeliverFrom(w, [f EXCEPT !.cancelled = TRUE], DeadlineResult(w))

\* _get_browser raised: "Browser launch failed: <e>"
LaunchFailed(c) == Result("result", FALSE, ErrLaunch(c), <<>>, NoMeta)

\* ----------------------------------------------- synchronous entry points
RECURSIVE TotalCalls(_)
TotalCalls(n) == IF n = 0 THEN 0 ELSE calls[n] + TotalCalls(n - 1)

\* Readings of time.time(): it never goes back, and only differences of
\* readings are used, so the first reading is taken as 0.
TimeReadings ==
    IF TotalCalls(NumWorkers) = 0 THEN {clock}
    ELSE {clock + k * TickStep : k \in 0..MaxTicks}

\* asyncio.get_running_loop() as the synchronous wrappers see it: they are
\* called from synchronous code, and run_until_complete of the previous call
\* has returned, so no loop is running in the thread.
RunningLoop(w) == NoLoop

\* _get_or_create_loop: the running loop when there is one, else
\* asyncio.new_event_loop(), made the thread's current loop
get_or_create_loop(running, fresh) ==
    IF running # NoLoop THEN running ELSE fresh

\* The synchronous wrapper takes its loop from _get_or_create_loop and starts
\* the coroutine, which runs without suspension up to _get_browser's
\* "now = time.time()".
Enter(w, op) ==
    /\ wk[w].pc = "idle"
    /\ TotalCalls(NumWorkers) < MaxCalls
    /\ calls' = [calls EXCEPT ![w] = @ + 1]
    /\ \E t \in TimeReadings :
         /\ t <= MaxClock
         /\ clock' = t
         /\ wk' = [wk EXCEPT ![w] = [IdleFrame EXCEPT
                      !.pc = "gb_lock1", !.op = op, !.now = t,
                      !.loop = get_or_create_loop(RunningLoop(w),
                                                  <<w, calls[w] + 1>>),
                      !.prev = wk[w].loop]]
    /\ result' = [result EXCEPT ![w] = NoResult]
    /\ cs' = IF cs.pc = "idle" THEN cs ELSE [cs EXCEPT !.overlap = TRUE]
    /\ UNCHANGED <<lock, pool, started, launched, launchedBy,
                   connected, closeTried, stopTried, nextId, openCtx, disk, db>>
    /\ UNCHANGED <<pathVars, storeVars>>

StartCapture(w) == Enter(w, "capture")

StartScrape(w) == Enter(w, "scrape")

\* ---------------------------------------------------------- _get_browser
\* "with _browser_lock:" blocks the thread until the lock is free.
GB_Lock(w) ==
    /\ wk[w].pc \in {"gb_lock1", "gb_lock2", "gb_lock3"}
    /\ lock = -1
    /\ lock' = w
    /\ SetFrame(w, [wk[w] EXCEPT !.pc = CASE @ = "gb_lock1" -> "gb_get"
                                          [] @ = "gb_lock2" -> "gb_pop"
                                          [] OTHER -> "gb_put"])
    /\ UNCHANGED <<clock, pool, started, launched, launchedBy, connected,
                   closeTried, stopTried, nextId, calls, result, openCtx,
                   disk, db, cs>>
    /\ UNCHANGED <<pathVars, storeVars>>

\* entry = _browser_instances.get(tid); if entry: ...
GB_Get(w) ==
    /\ wk[w].pc = "gb_get"
    /\ lock = w
    /\ lock' = -1
    /\ LET e == pool[Tid(w)]
       IN SetFrame(w, [wk[w] EXCEPT
              !.entry = e,
              !.pc = IF e = NoEntry THEN "gb_start" ELSE "gb_check"])
    /\ UNCHANGED <<clock, pool, started, launched, launchedBy, connected,
                   closeTried, stopTried, nextId, calls, result, openCtx,
                   disk, db, cs>>
    /\ UNCHANGED <<pathVars, storeVars>>

FreshNoTTL(e, now, is_connected) == is_connected
\* browser.is_connected() and (now - created_at) < _BROWSER_MAX_AGE
Fresh(e, now, is_connected) ==
    is_connected /\ (now - e.created_at) < BROWSER_MAX_AGE

\* The browser process may have died since it was pooled: is_connected()
\* is where the pool learns of it.
GB_Check(w) ==
    /\ wk[w].pc = "gb_check"
    /\ \E died \in (IF wk[w].entry.h \in connected THEN BOOLEAN ELSE {FALSE}) :
         LET conn == IF died THEN connected \ {wk[w].entry.h} ELSE connected
         IN /\ connected' = conn
            /\ IF Fresh(wk[w].entry, wk[w].now, wk[w].entry.h \in conn)
               THEN SetFrame(w, [wk[w] EXCEPT !.browser = wk[w].entry.h,
                                              !.reused = TRUE,
                                              !.entry = NoEntry, !.now = 0,
                                              !.pc = "new_context"])
               ELSE SetFrame(w, [wk[w] EXCEPT !.old = wk[w].entry.h,
                                              !.pc = "gb_lock2"])
    /\ UNCHANGED <<clock, lock, pool, started, launched, launchedBy,
                   closeTried, stopTried, nextId, calls, result,
                   openCtx, disk, db, cs>>
    /\ UNCHANGED <<pathVars, storeVars>>

GB_PopKeep(w) ==
    /\ wk[w].pc = "gb_pop"
    /\ lock = w
    /\ lock' = -1
    /\ SetFrame(w, [wk[w] EXCEPT !.pc = "gb_close"])
    /\ UNCHANGED <<clock, pool, started, launched, launchedBy, connected,
                   closeTried, stopTried, nextId, calls, result, openCtx,
                   disk, db, cs>>
    /\ UNCHANGED <<pathVars, storeVars>>
\* _browser_instances.pop(tid, None)
GB_Pop(w) ==
    /\ wk[w].pc = "gb_pop"
    /\ lock = w
    /\ lock' = -1
    /\ pool' = [pool EXCEPT ![Tid(w)] = NoEntry]
    /\ SetFrame(w, [wk[w] EXCEPT !.pc = "gb_close"])
    /\ UNCHANGED <<clock, started, launched, launchedBy, connected,
                   closeTried, stopTried, nextId, calls, result, openCtx,
                   disk, db, cs>>
    /\ UNCHANGED <<pathVars, storeVars>>

\* try: await browser.close() ... except Exception: pass
\* (CancelledError is no Exception: the deadline goes through)
GB_CloseOld(w) ==
    /\ wk[w].pc = "gb_close"
    /\ closeTried' = closeTried \cup {wk[w].entry.h}
    /\ \E o \in Outcomes :
         CASE o = "ok" ->
                /\ connected' = connected \ {wk[w].entry.h}
                /\ SetFrame(w, [wk[w] EXCEPT !.pc = "gb_stop"])
                /\ UNCHANGED <<result, db>>
           [] o = "fail" ->
                /\ SetFrame(w, [wk[w] EXCEPT !.pc = "gb_start"])
                /\ UNCHANGED <<connected, result, db>>
           [] OTHER ->
                /\ Expire(w, wk[w])
                /\ UNCHANGED connected
    /\ UNCHANGED <<clock, lock, pool, started, launched, launchedBy,
                   stopTried, nextId, calls, openCtx, disk, cs>>
    /\ UNCHANGED <<pathVars, storeVars>>

\* try: ... await pw.stop() except Exception: pass
GB_StopOld(w) ==
    /\ wk[w].pc = "gb_stop"
    /\ stopTried' = stopTried \cup {wk[w].entry.h}
    /\ \E o \in Outcomes :
         IF o \in {"ok", "fail"}
         THEN /\ SetFrame(w, [wk[w] EXCEPT !.pc = "gb_start"])
              /\ UNCHANGED <<result, db>>
         ELSE Expire(w, wk[w])
    /\ UNCHANGED <<clock, lock, pool, started, launched, launchedBy,
                   connected, closeTried, nextId, calls, openCtx, disk, cs>>
    /\ UNCHANGED <<pathVars, storeVars>>

\* pw = await async_playwright().start()
GB_PwStart(w) ==
    /\ wk[w].pc = "gb_start"
    /\ \E o \in Outcomes :
         CASE o = "ok" ->
                /\ nextId <= MaxLaunch
                /\ started' = started \cup {nextId}
                /\ nextId' = nextId + 1
                /\ SetFrame(w, [wk[w] EXCEPT !.pw = nextId, !.pc = "gb_launch"])
                /\ UNCHANGED <<result, db>>
           [] o = "fail" ->
                /\ Deliver(w, LaunchFailed("start"))
                /\ UNCHANGED <<started, nextId>>
           [] OTHER ->
                /\ Expire(w, wk[w])
                /\ UNCHANGED <<started, nextId>>
    /\ UNCHANGED <<clock, lock, pool, launched, launchedBy, connected,
                   closeTried, stopTried, calls, openCtx, disk, cs>>
    /\ UNCHANGED <<pathVars, storeVars>>

\* browser = await pw.chromium.launch(headless=True)
GB_Launch(w) ==
    /\ wk[w].pc = "gb_launch"
    /\ LET f == [wk[w] EXCEPT !.launches = @ + 1]
       IN \E o \in Outcomes :
         CASE o = "ok" ->
                /\ launched' = launched \cup {f.pw}
                /\ connected' = connected \cup {f.pw}
                /\ launchedBy' = [launchedBy EXCEPT ![f.pw] = w]
                /\ SetFrame(w, [f EXCEPT !.pc = "gb_lock3"])
                /\ UNCHANGED <<result, db>>
           [] o = "fail" ->
                /\ DeliverFrom(w, f, LaunchFailed("launch"))
                /\ UNCHANGED <<launched, connected, launchedBy>>
           [] OTHER ->
                /\ Expire(w, f)
                /\ UNCHANGED <<launched, connected, launchedBy>>
    /\ UNCHANGED <<clock, lock, pool, started, closeTried, stopTried,
                   nextId, calls, openCtx, disk, cs>>
    /\ UNCHANGED <<pathVars, storeVars>>

\* _browser_instances[tid] = (pw, browser, now); return pw, browser
GB_Put(w) ==
    /\ wk[w].pc = "gb_put"
    /\ lock = w
    /\ lock' = -1
    /\ pool' = [pool EXCEPT ![Tid(w)] = Entry(wk[w].pw, wk[w].now)]
    /\ SetFrame(w, [wk[w] EXCEPT !.browser = wk[w].pw, !.pw = 0,
                                   !.entry = NoEntry, !.now = 0,
                                   !.pc = "new_context"])
    /\ UNCHANGED <<clock, started, launched, launchedBy, connected,
                   closeTried, stopTried, nextId, calls, result, openCtx,
                   disk, db, cs>>
    /\ UNCHANGED <<pathVars, storeVars>>

\* ------------------------------------- _capture_website_async, _scrape_page_async
\* context = await browser.new_context(...): outside the try block
NewContext(w) ==
    /\ wk[w].pc = "new_context"
    /\ \E o \in OutcomesOn(wk[w].browser) :
         CASE o = "ok" ->
                /\ openCtx' = openCtx \cup {CtxOf(w)}
                /\ SetFrame(w, [wk[w] EXCEPT !.ctx = TRUE, !.pc = "new_page"])
                /\ UNCHANGED <<result, db>>
           [] o = "fail" ->
                /\ Deliver(w, RaisedResult("new_context"))
                /\ UNCHANGED openCtx
           [] OTHER ->
                /\ Expire(w, wk[w])
                /\ UNCHANGED openCtx
    /\ UNCHANGED <<clock, lock, pool, started, launched, launchedBy,
                   connected, closeTried, stopTried, nextId, calls, disk, cs>>
    /\ UNCHANGED <<pathVars, storeVars>>

\* page = await context.new_page(): outside the try block; metadata = {...}
NewPage(w) ==
    /\ wk[w].pc = "new_page"
    /\ \E o \in OutcomesOn(wk[w].browser) :
         CASE o = "ok" ->
                /\ SetFrame(w, [wk[w] EXCEPT
                       !.meta = IF wk[w].op = "capture" THEN InitMeta ELSE NoMeta,
                       !.pc = "goto"])
                /\ UNCHANGED <<result, db>>
           [] o = "fail" -> Deliver(w, RaisedResult("new_page"))
           [] OTHER -> Expire(w, wk[w])
    /\ UNCHANGED <<clock, lock, pool, started, launched, launchedBy,
                   connected, closeTried, stopTried, nextId, calls, openCtx,
                   disk, cs>>
    /\ UNCHANGED <<pathVars, storeVars>>

\* except Exception as e: return CaptureResult(success=False, url=url,
\*     error=str(e), metadata=metadata, duration_ms=...)
\* (scraper: ScrapedPage(status_code=0, is_accessible=False, error=str(e)))
ExceptResult(f, c) ==
    IF f.op = "capture"
    THEN Result("result", FALSE, ErrExc(c), <<>>, f.meta)
    ELSE Result("result", FALSE, ErrExc(c), <<>>, [keys |-> {}, status_code |-> 0])

\* A driver call inside the try block raised / was cancelled by the deadline:
\* the except clause (Exception only) or nothing sets the outcome, then finally.
Raise(w, f, c) ==
    SetFrame(w, [f EXCEPT !.pending = ExceptResult(f, c), !.pc = "ctx_close"])
Cancel(w, f) ==
    SetFrame(w, [f EXCEPT !.pending = Cancelled, !.cancelled = TRUE,
                          !.pc = "ctx_close"])

AddKeys(m, ks) == [m EXCEPT !.keys = @ \cup ks]

ShortCircuitAbove(s) == s > 400
\* if status_code >= 400
ShortCircuit(s) == s >= 400

GotoSkipWait(w) ==
    /\ wk[w].pc = "goto"
    /\ \E o \in OutcomesOn(wk[w].browser) :
         CASE o = "ok" ->
                \E s \in Statuses :
                  LET m == IF wk[w].op = "capture"
                           THEN [keys |-> wk[w].meta.keys \cup {"status_code", "final_url"},
                                 status_code |-> s]
                           ELSE [keys |-> {}, status_code |-> s]
                      f == [wk[w] EXCEPT !.meta = m, !.nav = s]
                  IN IF wk[w].op = "capture" /\ ShortCircuit(s)
                     THEN SetFrame(w, [f EXCEPT
                              !.pending = Result("result", FALSE, ErrHTTP(s), <<>>, m),
                              !.pc = "ctx_close"])
                     ELSE SetFrame(w, [f EXCEPT !.pc = "title"])
           [] o = "fail" -> Raise(w, wk[w], "goto")
           [] OTHER -> Cancel(w, wk[w])
    /\ UNCHANGED <<clock, lock, pool, started, launched, launchedBy,
                   connected, closeTried, stopTried, nextId, calls, result,
                   openCtx, disk, db, cs>>
    /\ UNCHANGED <<pathVars, storeVars>>
\* response = await page.goto(...); status_code = response.status if response else 0
Goto(w) ==
    /\ wk[w].pc = "goto"
    /\ \E o \in OutcomesOn(wk[w].browser) :
         CASE o = "ok" ->
                \E s \in Statuses :
                  LET m == IF wk[w].op = "capture"
                           THEN [keys |-> wk[w].meta.keys \cup {"status_code", "final_url"},
                                 status_code |-> s]
                           ELSE [keys |-> {}, status_code |-> s]
                      f == [wk[w] EXCEPT !.meta = m, !.nav = s]
                  IN IF wk[w].op = "capture" /\ ShortCircuit(s)
                     THEN SetFrame(w, [f EXCEPT
                              !.pending = Result("result", FALSE, ErrHTTP(s), <<>>, m),
                              !.pc = "ctx_close"])
                     ELSE SetFrame(w, [f EXCEPT !.pc = "wait"])
           [] o = "fail" -> Raise(w, wk[w], "goto")
           [] OTHER -> Cancel(w, wk[w])
    /\ UNCHANGED <<clock, lock, pool, started, launched, launchedBy,
                   connected, closeTried, stopTried, nextId, calls, result,
                   openCtx, disk, db, cs>>
    /\ UNCHANGED <<pathVars, storeVars>>

\* await page.wait_for_timeout(wait_ms)
Wait(w) ==
    /\ wk[w].pc = "wait"
    /\ \E o \in OutcomesOn(wk[w].browser) :
         CASE o = "ok" -> SetFrame(w, [wk[w] EXCEPT !.pc = "title"])
           [] o = "fail" -> Raise(w, wk[w], "wait_for_timeout")
           [] OTHER -> Cancel(w, wk[w])
    /\ UNCHANGED <<clock, lock, pool, started, launched, launchedBy,
                   connected, closeTried, stopTried, nextId, calls, result,
                   openCtx, disk, db, cs>>
    /\ UNCHANGED <<pathVars, storeVars>>

\* title = await page.title() or ""
Title(w) ==
    /\ wk[w].pc = "title"
    /\ \E o \in OutcomesOn(wk[w].browser) :
         CASE o = "ok" ->
                SetFrame(w, [wk[w] EXCEPT
                    !.extracted = @ \cup {"title"},
                    !.meta = IF wk[w].op = "capture" THEN AddKeys(@, {"title"}) ELSE @,
                    !.pc = IF wk[w].op = "capture" THEN "screenshot" ELSE "sc_query"])
           [] o = "fail" -> Raise(w, wk[w], "title")
           [] OTHER -> Cancel(w, wk[w])
    /\ UNCHANGED <<clock, lock, pool, started, launched, launchedBy,
                   connected, closeTried, stopTried, nextId, calls, result,
                   openCtx, disk, db, cs>>
    /\ UNCHANGED <<pathVars, storeVars>>

\* screenshot_bytes = await page.screenshot(full_page=full_page)
Screenshot(w) ==
    /\ wk[w].pc = "screenshot"
    /\ \E o \in OutcomesOn(wk[w].browser) :
         CASE o = "ok" ->
                SetFrame(w, [wk[w] EXCEPT
                    !.extracted = @ \cup {"screenshot"},
                    !.meta = AddKeys(@, {"screenshot_size"}),
                    !.pc = "evaluate"])
           [] o = "fail" -> Raise(w, wk[w], "screenshot")
           [] OTHER -> Cancel(w, wk[w])
    /\ UNCHANGED <<clock, lock, pool, started, launched, launchedBy,
                   connected, closeTried, stopTried, nextId, calls, result,
                   openCtx, disk, db, cs>>
    /\ UNCHANGED <<pathVars, storeVars>>

SucceedLastOnly(w, f) ==
    SetFrame(w, [f EXCEPT
        !.pending = Result("result", TRUE, NoErr,
                           <<f.paths[Len(f.paths)]>>, f.meta),
        !.pc = "ctx_close"])
\* return CaptureResult(success=True, url=url,
\*     evidence_paths=[p[1] for p in evidence_paths], metadata=metadata, ...)
Succeed(w, f) ==
    SetFrame(w, [f EXCEPT
        !.pending = Result("result", TRUE, NoErr, f.paths, f.meta),
        !.pc = "ctx_close"])

\* dimensions = await page.evaluate(...); screenshot_path = store_file(...);
\* evidence_paths.append(...); then the HTML archive if save_html
\* (the save_html argument is read here and nowhere else; it is drawn here)
Evaluate(w) ==
    /\ wk[w].pc = "evaluate"
    /\ \E o \in OutcomesOn(wk[w].browser) :
         CASE o = "ok" ->
                LET f == [wk[w] EXCEPT
                            !.extracted = @ \cup {"evaluate"},
                            !.meta = AddKeys(@, {"page_width", "page_height"}),
                            !.stored = @ \cup {"screenshot"},
                            !.paths = Append(@, PathOf(w, "screenshot"))]
                IN /\ disk' = disk \cup {PathOf(w, "screenshot")}
                   /\ \E save_html \in BOOLEAN :
                        IF save_html
                        THEN SetFrame(w, [f EXCEPT !.save_html = TRUE,
                                                   !.pc = "content"])
                        ELSE Succeed(w, f)
           [] o = "fail" -> Raise(w, wk[w], "evaluate") /\ UNCHANGED disk
           [] OTHER -> Cancel(w, wk[w]) /\ UNCHANGED disk
    /\ UNCHANGED <<clock, lock, pool, started, launched, launchedBy,
                   connected, closeTried, stopTried, nextId, calls, result,
                   openCtx, db, cs>>
    /\ UNCHANGED <<pathVars, storeVars>>

\* html_content = await page.content(); html_path = store_file(...);
\* evidence_paths.append(...)
Content(w) ==
    /\ wk[w].pc = "content"
    /\ \E o \in OutcomesOn(wk[w].browser) :
         CASE o = "ok" ->
                LET f == [wk[w] EXCEPT
                            !.extracted = @ \cup {"content"},
                            !.meta = AddKeys(@, {"html_size"}),
                            !.stored = @ \cup {"page_archive"},
                            !.paths = Append(@, PathOf(w, "page_archive"))]
                IN /\ disk' = disk \cup {PathOf(w, "page_archive")}
                   /\ Succeed(w, f)
           [] o = "fail" -> Raise(w, wk[w], "content") /\ UNCHANGED disk
           [] OTHER -> Cancel(w, wk[w]) /\ UNCHANGED disk
    /\ UNCHANGED <<clock, lock, pool, started, launched, launchedBy,
                   connected, closeTried, stopTried, nextId, calls, result,
                   openCtx, db, cs>>
    /\ UNCHANGED <<pathVars, storeVars>>

\* meta_desc_el = await page.query_selector('meta[name="description"]')
SC_Query(w) ==
    /\ wk[w].pc = "sc_query"
    /\ \E o \in OutcomesOn(wk[w].browser) :
         CASE o = "ok" ->
                \E found \in BOOLEAN :
                    SetFrame(w, [wk[w] EXCEPT
                        !.pc = IF found THEN "sc_attr" ELSE "sc_evaluate"])
           [] o = "fail" -> Raise(w, wk[w], "query_selector")
           [] OTHER -> Cancel(w, wk[w])
    /\ UNCHANGED <<clock, lock, pool, started, launched, launchedBy,
                   connected, closeTried, stopTried, nextId, calls, result,
                   openCtx, disk, db, cs>>
    /\ UNCHANGED <<pathVars, storeVars>>

\* meta_description = await meta_desc_el.get_attribute("content") or ""
SC_Attr(w) ==
    /\ wk[w].pc = "sc_attr"
    /\ \E o \in OutcomesOn(wk[w].browser) :
         CASE o = "ok" -> SetFrame(w, [wk[w] EXCEPT !.pc = "sc_evaluate"])
           [] o = "fail" -> Raise(w, wk[w], "get_attribute")
           [] OTHER -> Cancel(w, wk[w])
    /\ UNCHANGED <<clock, lock, pool, started, launched, launchedBy,
                   connected, closeTried, stopTried, nextId, calls, result,
                   openCtx, disk, db, cs>>
    /\ UNCHANGED <<pathVars, storeVars>>

\* main_text = await page.evaluate(...); return ScrapedPage(...,
\*     status_code=status_code, is_accessible=(status_code < 400))
SC_Evaluate(w) ==
    /\ wk[w].pc = "sc_evaluate"
    /\ \E o \in OutcomesOn(wk[w].browser) :
         CASE o = "ok" ->
                SetFrame(w, [wk[w] EXCEPT
                    !.pending = Result("result", wk[w].meta.status_code < 400,
                                       NoErr, <<>>, wk[w].meta),
                    !.pc = "ctx_close"])
           [] o = "fail" -> Raise(w, wk[w], "evaluate")
           [] OTHER -> Cancel(w, wk[w])
    /\ UNCHANGED <<clock, lock, pool, started, launched, launchedBy,
                   connected, closeTried, stopTried, nextId, calls, result,
                   openCtx, disk, db, cs>>
    /\ UNCHANGED <<pathVars, storeVars>>

\* finally: await context.close()
\*   ok:       the pending return value (or the pending CancelledError, which
\*             wait_for turns into TimeoutError) goes to the wrapper;
\*   fail:     the exception of close() replaces whatever was pending and
\*             leaves run_until_complete as it is;
\*   deadline: the deadline fires while close() is awaited; whether the driver
\*             still closes the context is not determined by the code.
CtxClose(w) ==
    /\ wk[w].pc = "ctx_close"
    /\ \E o \in (IF wk[w].pending.kind = "cancel" THEN {"ok", "fail"} ELSE Outcomes) :
         CASE o = "ok" ->
                /\ openCtx' = openCtx \ {CtxOf(w)}
                /\ Deliver(w, IF wk[w].pending.kind = "cancel"
                              THEN DeadlineResult(w) ELSE wk[w].pending)
           [] o = "fail" ->
                /\ UNCHANGED openCtx
                /\ Deliver(w, RaisedResult("context.close"))
           [] OTHER ->
                /\ \E closed \in BOOLEAN :
                     openCtx' = IF closed THEN openCtx \ {CtxOf(w)} ELSE openCtx
                /\ Expire(w, wk[w])
    /\ UNCHANGED <<clock, lock, pool, started, launched, launchedBy,
                   connected, closeTried, stopTried, nextId, calls, disk, cs>>
    /\ UNCHANGED <<pathVars, storeVars>>

\* ------------------------------------------------------ close_browser_sync
InGetBrowser(w) ==
    wk[w].pc \in {"gb_lock1", "gb_get", "gb_check", "gb_lock2", "gb_pop",
                  "gb_close", "gb_stop", "gb_start", "gb_launch", "gb_lock3",
                  "gb_put"}

RECURSIVE PoolItems(_)
\* list(_browser_instances.items())
PoolItems(t) ==
    IF t = 0 THEN <<>>
    ELSE PoolItems(t - 1) \o (IF pool[t] = NoEntry THEN <<>> ELSE <<pool[t]>>)

\* loop = _get_or_create_loop(); with _browser_lock:
CS_Lock ==
    /\ cs.pc = "idle"
    /\ lock = -1
    /\ lock' = Closer
    /\ cs' = [cs EXCEPT !.pc = "snap",
                        !.overlap = \E w \in Workers : InGetBrowser(w)]
    /\ UNCHANGED <<clock, pool, started, launched, launchedBy, connected,
                   closeTried, stopTried, nextId, wk, calls, result, openCtx,
                   disk, db>>
    /\ UNCHANGED <<pathVars, storeVars>>

\* entries = list(_browser_instances.items()); _browser_instances.clear()
CS_Snapshot ==
    /\ cs.pc = "snap"
    /\ lock = Closer
    /\ lock' = -1
    /\ pool' = [t \in Workers |-> NoEntry]
    /\ LET es == PoolItems(NumWorkers)
       IN cs' = [cs EXCEPT !.entries = es, !.i = 1,
                           !.pc = IF es = <<>> THEN "done" ELSE "close"]
    /\ UNCHANGED <<clock, started, launched, launchedBy, connected,
                   closeTried, stopTried, nextId, wk, calls, result, openCtx,
                   disk, db>>
    /\ UNCHANGED <<pathVars, storeVars>>

\* One iteration of "for _tid, entry in entries": the two calls are
\* synchronous (run_until_complete) and each has its own try/except.
CS_CloseOneSharedTry ==
    /\ cs.pc = "close"
    /\ LET h == cs.entries[cs.i].h
       IN \E oc \in {"ok", "fail"} :
            /\ closeTried' = closeTried \cup {h}
            /\ connected' = IF oc = "ok" THEN connected \ {h} ELSE connected
            /\ stopTried' = IF oc = "ok" THEN stopTried \cup {h} ELSE stopTried
            /\ cs' = [cs EXCEPT
                        !.closed = @ \cup {h},
                        !.failed = IF oc = "ok" THEN @ ELSE @ \cup {h},
                        !.stopped = IF oc = "ok" THEN @ \cup {h} ELSE @,
                        !.i = @ + 1,
                        !.pc = IF cs.i < Len(cs.entries) THEN "close" ELSE "done"]
    /\ UNCHANGED <<clock, lock, pool, started, launched, launchedBy,
                   nextId, wk, calls, result, openCtx, disk, db>>
    /\ UNCHANGED <<pathVars, storeVars>>
\*   try: loop.run_until_complete(browser.close()) except Exception: pass
\*   try: loop.run_until_complete(pw.stop())       except Exception: pass
CS_CloseOne ==
    /\ cs.pc = "close"
    /\ LET h == cs.entries[cs.i].h
       IN \E oc \in {"ok", "fail"} :
            /\ closeTried' = closeTried \cup {h}
            /\ connected' = IF oc = "ok" THEN connected \ {h} ELSE connected
            /\ stopTried' = stopTried \cup {h}
            /\ cs' = [cs EXCEPT
                        !.closed = @ \cup {h},
                        !.failed = IF oc = "ok" THEN @ ELSE @ \cup {h},
                        !.stopped = @ \cup {h},
                        !.i = @ + 1,
                        !.pc = IF cs.i < Len(cs.entries) THEN "close" ELSE "done"]
    /\ UNCHANGED <<clock, lock, pool, started, launched, launchedBy,
                   nextId, wk, calls, result, openCtx, disk, db>>
    /\ UNCHANGED <<pathVars, storeVars>>

\* ----------------------------------------------------------- _close_browser
\* The coroutine is started on the worker's thread; nothing in the program
\* puts a deadline on it.
StartClose(w) ==
    /\ wk[w].pc = "idle"
    /\ TotalCalls(NumWorkers) < MaxCalls
    /\ calls' = [calls EXCEPT ![w] = @ + 1]
    /\ wk' = [wk EXCEPT ![w] = [IdleFrame EXCEPT !.pc = "cb_lock",
                                                 !.op = "close"]]
    /\ result' = [result EXCEPT ![w] = NoResult]
    /\ UNCHANGED <<clock, lock, pool, started, launched, launchedBy,
                   connected, closeTried, stopTried, nextId, openCtx, disk,
                   db, cs>>
    /\ UNCHANGED <<pathVars, storeVars>>

\* with _browser_lock:
CB_Lock(w) ==
    /\ wk[w].pc = "cb_lock"
    /\ lock = -1
    /\ lock' = w
    /\ SetFrame(w, [wk[w] EXCEPT !.pc = "cb_pop"])
    /\ UNCHANGED <<clock, pool, started, launched, launchedBy, connected,
                   closeTried, stopTried, nextId, calls, result, openCtx,
                   disk, db, cs>>
    /\ UNCHANGED <<pathVars, storeVars>>

CB_PopHold(w) ==
    /\ wk[w].pc = "cb_pop"
    /\ lock = w
    /\ pool' = [pool EXCEPT ![Tid(w)] = NoEntry]
    /\ IF pool[Tid(w)] = NoEntry
       THEN /\ lock' = -1
            /\ Deliver(w, Result("closed", TRUE, NoErr, <<>>, NoMeta))
       ELSE /\ lock' = lock
            /\ SetFrame(w, [wk[w] EXCEPT !.entry = pool[Tid(w)],
                                          !.old = pool[Tid(w)].h,
                                          !.pc = "cb_close"])
            /\ UNCHANGED <<result, db>>
    /\ UNCHANGED <<clock, started, launched, launchedBy, connected,
                   closeTried, stopTried, nextId, calls, openCtx, disk, cs>>
    /\ UNCHANGED <<pathVars, storeVars>>
\* entry = _browser_instances.pop(tid, None); if entry: ...
CB_Pop(w) ==
    /\ wk[w].pc = "cb_pop"
    /\ lock = w
    /\ lock' = -1
    /\ pool' = [pool EXCEPT ![Tid(w)] = NoEntry]
    /\ IF pool[Tid(w)] = NoEntry
       THEN Deliver(w, Result("closed", TRUE, NoErr, <<>>, NoMeta))
       ELSE /\ SetFrame(w, [wk[w] EXCEPT !.entry = pool[Tid(w)],
                                          !.old = pool[Tid(w)].h,
                                          !.pc = "cb_close"])
            /\ UNCHANGED <<result, db>>
    /\ UNCHANGED <<clock, started, launched, launchedBy, connected,
                   closeTried, stopTried, nextId, calls, openCtx, disk, cs>>
    /\ UNCHANGED <<pathVars, storeVars>>

\* try: await browser.close() except Exception: pass
CB_Close(w) ==
    /\ wk[w].pc = "cb_close"
    /\ closeTried' = closeTried \cup {wk[w].entry.h}
    /\ \E o \in {"ok", "fail"} :
         connected' = IF o = "ok" THEN connected \ {wk[w].entry.h}
                      ELSE connected
    /\ SetFrame(w, [wk[w] EXCEPT !.pc = "cb_stop"])
    /\ UNCHANGED <<clock, lock, pool, started, launched, launchedBy,
                   stopTried, nextId, calls, result, openCtx, disk, db, cs>>
    /\ UNCHANGED <<pathVars, storeVars>>

\* try: await pw.stop() except Exception: pass
CB_Stop(w) ==
    /\ wk[w].pc = "cb_stop"
    /\ stopTried' = stopTried \cup {wk[w].entry.h}
    /\ Deliver(w, Result("closed", TRUE, NoErr, <<>>, NoMeta))
    /\ UNCHANGED <<clock, lock, pool, started, launched, launchedBy,
                   connected, closeTried, nextId, calls, openCtx, disk, cs>>
    /\ UNCHANGED <<pathVars, storeVars>>

ScrapeStep(w) ==
    \/ StartScrape(w) \/ SC_Query(w) \/ SC_Attr(w) \/ SC_Evaluate(w)

CaptureStep(w) ==
    \/ StartCapture(w)
    \/ GB_Lock(w) \/ GB_Get(w) \/ GB_Check(w) \/ GB_Pop(w)
    \/ GB_CloseOld(w) \/ GB_StopOld(w) \/ GB_PwStart(w) \/ GB_Launch(w)
    \/ GB_Put(w)
    \/ NewContext(w) \/ NewPage(w) \/ Goto(w) \/ Wait(w) \/ Title(w)
    \/ Screenshot(w) \/ Evaluate(w) \/ Content(w)
    \/ CtxClose(w)

CloserStep == CS_Lock \/ CS_Snapshot \/ CS_CloseOne

\* ------------------------------------------------- evidence_path_absolute
IsPrefix(a, b) == Len(a) <= Len(b) /\ SubSeq(b, 1, Len(a)) = a
Parent(p) == IF p = <<>> THEN <<>> ELSE SubSeq(p, 1, Len(p) - 1)

RECURSIVE Resolve(_, _, _)
\* Path.resolve() (strict=False): walk the components from `cur`; "." stays,
\* ".." goes to the parent of what is resolved so far, a symbolic link is
\* replaced by its target (from "/" when the target is absolute), anything
\* else, existing or not, is appended.
Resolve(cur, todo, hops) ==
    IF todo = <<>> THEN cur
    ELSE LET x == Head(todo)
             rest == Tail(todo)
             np == Append(cur, x)
         IN CASE x = "." -> Resolve(cur, rest, hops)
              [] x = ".." -> Resolve(Parent(cur), rest, hops)
              [] np \in LinkPlaces /\ fsLinks[np] # NoLink /\ hops > 0 ->
                    Resolve(IF fsLinks[np].abs THEN <<>> ELSE cur,
                            fsLinks[np].segs \o rest, hops - 1)
              [] OTHER -> Resolve(np, rest, hops)

\* EVIDENCE_DIR / relative_path: an absolute right operand replaces the left
Join(base, rel) == IF rel.abs THEN rel.segs ELSE base \o rel.segs

RECURSIVE Lexical(_, _)
\* "." and ".." folded without looking at the file system
Lexical(cur, todo) ==
    IF todo = <<>> THEN cur
    ELSE CASE Head(todo) = "." -> Lexical(cur, Tail(todo))
           [] Head(todo) = ".." -> Lexical(Parent(cur), Tail(todo))
           [] OTHER -> Lexical(Append(cur, Head(todo)), Tail(todo))

evidence_path_absolute_lexical(relative_path) ==
    LET target == Resolve(<<>>, Join(EVIDENCE_DIR, relative_path), MaxHops)
    IN IF ~IsPrefix(EVIDENCE_DIR, Lexical(<<>>, Join(EVIDENCE_DIR, relative_path)))
       THEN [raised |-> TRUE, path |-> <<>>]
       ELSE [raised |-> FALSE, path |-> target]
\* base = EVIDENCE_DIR.resolve(); target = (EVIDENCE_DIR / relative_path).resolve()
\* if not target.is_relative_to(base): raise ValueError("Path traversal detected")
evidence_path_absolute(relative_path) ==
    LET base == Resolve(<<>>, EVIDENCE_DIR, MaxHops)
        target == Resolve(<<>>, Join(EVIDENCE_DIR, relative_path), MaxHops)
    IN IF ~IsPrefix(base, target)
       THEN [raised |-> TRUE, path |-> <<>>]
       ELSE [raised |-> FALSE, path |-> target]

\* One call, on the file system as it is; its outcome is held until the
\* file system changes.
ResolveCall ==
    /\ pathRes.out = NoOutcome
    /\ \E rel \in RelPaths :
         pathRes' = [arg |-> rel, out |-> evidence_path_absolute(rel)]
    /\ UNCHANGED fsLinks
    /\ UNCHANGED <<poolVars, storeVars>>

\* The environment creates or removes a symbolic link (no link may lead
\* through itself: link loops are left out).  A path resolved before the
\* change says nothing about the file system after it and is dropped.
Symlink ==
    /\ \E p \in LinkPlaces, t \in LinkTargets :
         /\ fsLinks[p] = NoLink
         /\ p = <<"data">> <=> t = RelPath(TRUE, <<"mnt">>)
         /\ fsLinks' = [fsLinks EXCEPT ![p] = t]
    /\ pathRes' = NoCall
    /\ UNCHANGED <<poolVars, storeVars>>

Unlink ==
    /\ \E p \in LinkPlaces :
         /\ fsLinks[p] # NoLink
         /\ fsLinks' = [fsLinks EXCEPT ![p] = NoLink]
    /\ pathRes' = NoCall
    /\ UNCHANGED <<poolVars, storeVars>>

\* ------------------------------------------------------------ file storage
\* str(project_id), str(entity_id)
ProjectIds == {"1"}
EntityIds == {"1"}

\* Path(filename).suffix.lower(); a file name is the sequence of its pieces
\* between dots ("" is <<"">>, "a.PNG" is <<"a", "PNG">>, ".png" is
\* <<"", "png">>).  The suffix starts at the last dot unless that dot is the
\* first or the last character of the name.
Lower(s) == CASE s = "PNG" -> "png" [] s = "Pdf" -> "pdf" [] OTHER -> s
Suffix(filename) ==
    LET n == Len(filename)
    IN IF n >= 2 /\ filename[n] # "" /\ (n >= 3 \/ filename[1] # "")
       THEN "." \o filename[n] ELSE ""
SuffixLower(filename) ==
    LET n == Len(filename)
    IN IF Suffix(filename) = "" THEN "" ELSE "." \o Lower(filename[n])

validate_upload_atlimit(filename, size) ==
    IF filename = <<"">> THEN [ok |-> FALSE, reason |-> "No filename provided"]
    ELSE IF SuffixLower(filename) \notin ALLOWED_UPLOAD_EXTENSIONS
    THEN [ok |-> FALSE, reason |-> "File type not allowed"]
    ELSE IF size >= MAX_UPLOAD_SIZE
    THEN [ok |-> FALSE, reason |-> "File too large"]
    ELSE IF size = 0 THEN [ok |-> FALSE, reason |-> "Empty file"]
    ELSE [ok |-> TRUE, reason |-> ""]
validate_upload(filename, size) ==
    IF filename = <<"">> THEN [ok |-> FALSE, reason |-> "No filename provided"]
    ELSE IF SuffixLower(filename) \notin ALLOWED_UPLOAD_EXTENSIONS
    THEN [ok |-> FALSE, reason |-> "File type not allowed"]
    ELSE IF size > MAX_UPLOAD_SIZE
    THEN [ok |-> FALSE, reason |-> "File too large"]
    ELSE IF size = 0 THEN [ok |-> FALSE, reason |-> "Empty file"]
    ELSE [ok |-> TRUE, reason |-> ""]

\* guess_evidence_type, from the lower-cased suffix of the file name
guess_evidence_type(ext) ==
    CASE ext \in {".png", ".jpg", ".jpeg", ".gif", ".webp", ".svg"} ->
            "screenshot"
      [] ext \in {".pdf", ".doc", ".docx", ".xls", ".xlsx", ".csv", ".txt",
                  ".md", ".json"} -> "document"
      [] ext \in {".html", ".htm", ".mhtml"} -> "page_archive"
      [] ext \in {".mp4", ".mov", ".webm"} -> "video"
      [] OTHER -> "other"

\* _content_type_to_ext: the content type decides when it is known, then the
\* extension of the URL path when it is an allowed one, else ".bin"
content_type_to_ext(ct, path_ext) ==
    CASE ct = "application/pdf" -> ".pdf"
      [] ct = "text/html" -> ".html"
      [] ct = "image/png" -> ".png"
      [] OTHER -> IF path_ext \in ALLOWED_UPLOAD_EXTENSIONS
                  THEN path_ext ELSE ".bin"

evidence_path_relative_notype(pid, eid, type, filename) ==
    RelPath(FALSE, <<pid, eid>> \o filename.segs)
\* f"{project_id}/{entity_id}/{evidence_type}/{filename}": read back as a
\* path it is relative, whatever the file name started with
evidence_path_relative(pid, eid, type, filename) ==
    RelPath(FALSE, <<pid, eid, type>> \o filename.segs)

\* What the operating system does with a path it is asked to open: every
\* directory walked through must exist; the last component need not.
RECURSIVE Walk(_, _, _)
Walk(cur, todo, dirs) ==
    IF todo = <<>> THEN cur
    ELSE IF cur \notin dirs THEN <<"#enoent">>
    ELSE CASE Head(todo) = "." -> Walk(cur, Tail(todo), dirs)
           [] Head(todo) = ".." -> Walk(Parent(cur), Tail(todo), dirs)
           [] OTHER -> Walk(Append(cur, Head(todo)), Tail(todo), dirs)

StoreOut(raised, ret, dirs, files) ==
    [raised |-> raised, ret |-> ret, dirs |-> dirs, files |-> files]

store_file_dirfirst(pid, eid, type, data, filename) ==
    LET d == EVIDENCE_DIR \o <<pid, eid, type>>
        made == fsDirs \cup Prefixes(d)
        target == Walk(<<>>, Join(d, filename), made)
        none == RelPath(FALSE, <<>>)
    IN IF Prefixes(d) \cap DOMAIN fsData # {}
       THEN StoreOut(TRUE, none, fsDirs, fsData)
       ELSE IF type \notin ALLOWED_EVIDENCE_TYPES
       THEN StoreOut(TRUE, none, made, fsData)
       ELSE IF target = <<"#enoent">> \/ target \in made
       THEN StoreOut(TRUE, none, made, fsData)
       ELSE StoreOut(FALSE, evidence_path_relative(pid, eid, type, filename),
                     made,
                     [p \in DOMAIN fsData \cup {target} |->
                         IF p = target THEN data ELSE fsData[p]])
\* store_file: evidence_dir_for (type check, then mkdir(parents=True,
\* exist_ok=True)), (d / filename).write_bytes(data), the relative path
store_file(pid, eid, type, data, filename) ==
    LET d == EVIDENCE_DIR \o <<pid, eid, type>>
        made == fsDirs \cup Prefixes(d)
        target == Walk(<<>>, Join(d, filename), made)
        none == RelPath(FALSE, <<>>)
    IN IF type \notin ALLOWED_EVIDENCE_TYPES
       THEN StoreOut(TRUE, none, fsDirs, fsData)
       ELSE IF Prefixes(d) \cap DOMAIN fsData # {}
       THEN StoreOut(TRUE, none, fsDirs, fsData)
       ELSE IF target = <<"#enoent">> \/ target \in made
       THEN StoreOut(TRUE, none, made, fsData)
       ELSE StoreOut(FALSE, evidence_path_relative(pid, eid, type, filename),
                     made,
                     [p \in DOMAIN fsData \cup {target} |->
                         IF p = target THEN data ELSE fsData[p]])

\* not any(parent.iterdir())
IsEmptyDir(p, dirs, files) ==
    \A q \in dirs \cup files : q = p \/ Parent(q) # p

\* one round of delete_file's loop over the three parents
Prune(p, dirs, files) ==
    IF p # EVIDENCE_DIR /\ p \in dirs /\ IsEmptyDir(p, dirs, files)
    THEN dirs \ {p} ELSE dirs

delete_file_missing_ok(relative_path) ==
    LET r == evidence_path_absolute(relative_path)
        left == DOMAIN fsData \ {r.path}
        d1 == Prune(Parent(r.path), fsDirs, left)
        d2 == Prune(Parent(Parent(r.path)), d1, left)
        d3 == Prune(Parent(Parent(Parent(r.path))), d2, left)
    IN IF r.raised \/ r.path \in fsDirs
       THEN StoreOut(TRUE, FALSE, fsDirs, fsData)
       ELSE StoreOut(FALSE, TRUE, d3, [p \in left |-> fsData[p]])
\* delete_file: resolve (may raise), unlink when the path exists (a directory
\* makes unlink raise), then rmdir each of the three nearest parents that is
\* not EVIDENCE_DIR, exists and is empty
delete_file(relative_path) ==
    LET r == evidence_path_absolute(relative_path)
        left == DOMAIN fsData \ {r.path}
        d1 == Prune(Parent(r.path), fsDirs, left)
        d2 == Prune(Parent(Parent(r.path)), d1, left)
        d3 == Prune(Parent(Parent(Parent(r.path))), d2, left)
    IN IF r.raised \/ r.path \in fsDirs
       THEN StoreOut(TRUE, FALSE, fsDirs, fsData)
       ELSE IF r.path \notin DOMAIN fsData
       THEN StoreOut(FALSE, FALSE, fsDirs, fsData)
       ELSE StoreOut(FALSE, TRUE, d3, [p \in left |-> fsData[p]])

\* ------------------------------------------------- evidence store calls
MaxFiles == 2
StoreTypes == {"screenshot", "bogus"}
FileNames ==
    {RelPath(FALSE, <<"f">>), RelPath(FALSE, <<"sub", "f">>),
     RelPath(FALSE, <<"..", "f">>),
     RelPath(FALSE, <<"..", "..", "..", "..", "x">>)}
StoreBlobs == {Blob("A", 1), Blob("B", 2)}
UploadNames ==
    {<<"">>, <<"a", "PNG">>, <<"a", "exe">>, <<"a", "Pdf">>, <<"", "png">>}
UploadSizes == {0, 1, MAX_UPLOAD_SIZE, MAX_UPLOAD_SIZE + 1}
DeletePaths ==
    {RelPath(FALSE, <<pid, eid, t>> \o n) :
        pid \in ProjectIds, eid \in EntityIds,
        t \in {"screenshot", "document", "other"},
        n \in {<<>>, <<"f">>, <<"sub", "f">>, <<"..", "f">>,
               <<"n1.png">>, <<"n1.pdf">>, <<"n1.bin">>}}
    \cup {RelPath(FALSE, <<"..", "x">>), RelPath(FALSE, <<"1", "..", "x">>)}

\* a name from _generate_filename: one path component ending in ext
GenName(ext) == RelPath(FALSE, <<"n1" \o ext>>)


\* The call ends with outcome o of store_file; db.add_evidence follows a
\* stored file when db is given.
Stored(c, o, usedb) ==
    /\ stRes = NoStore
    /\ Cardinality(DOMAIN o.files) <= MaxFiles
    /\ fsDirs' = o.dirs
    /\ fsData' = o.files
    /\ stRes' = [c EXCEPT !.raised = o.raised, !.ok = ~o.raised,
                          !.error = IF o.raised THEN "raised" ELSE "",
                          !.path = o.ret,
                          !.registered = usedb /\ ~o.raised]
    /\ UNCHANGED <<gen, th, poolVars, pathVars>>

\* The call ends before anything was stored.
Rejected(c, reason) ==
    /\ stRes = NoStore
    /\ stRes' = [c EXCEPT !.error = reason]
    /\ UNCHANGED <<fsDirs, fsData, gen, th, poolVars, pathVars>>

StoreFile ==
    \E pid \in ProjectIds, eid \in EntityIds, type \in StoreTypes,
       data \in StoreBlobs, filename \in FileNames :
       Stored(Called("store_file", pid, eid, type, filename, <<"">>, data),
              store_file(pid, eid, type, data, filename), FALSE)

StoreUpload ==
    \E pid \in ProjectIds, eid \in EntityIds, original \in UploadNames,
       size \in UploadSizes, override \in {"", "bogus"},
       db_given \in BOOLEAN :
       LET v == validate_upload(original, size)
           ext == SuffixLower(original)
           type == IF override = "" THEN guess_evidence_type(ext)
                   ELSE override
           c == Called("store_upload", pid, eid, type, GenName(ext),
                       original, Blob("U", size))
       IN IF ~v.ok
          THEN ~db_given /\ override = "" /\ Rejected(c, v.reason)
          ELSE Stored(c, store_file(pid, eid, type, Blob("U", size),
                                    GenName(ext)), db_given)

\* Body lengths a server may send: up to twice the upload limit.
DocSizes == UploadSizes \cup {2 * MAX_UPLOAD_SIZE}

\* capture_document: requests.get and raise_for_status, then
\* "content = resp.content", which reads the whole body into memory, then the
\* length check, then store_file.  The data of the call is what was read: the
\* whole body of size bytes once the request succeeded, nothing before.
CaptureDocument ==
    \E pid \in ProjectIds, eid \in EntityIds, fetched \in BOOLEAN,
       ct \in {"application/pdf", ""}, path_ext \in {".png", ".exe"},
       size \in DocSizes, db_given \in BOOLEAN :
       LET ext == content_type_to_ext(ct, path_ext)
           type == guess_evidence_type(ext)
           c == Called("capture_document", pid, eid, type, GenName(ext),
                       <<"">>, Blob("D", size))
       IN IF ~fetched
          THEN ~db_given /\ size = 0 /\ Rejected(c, "Download failed")
          ELSE IF size > MAX_UPLOAD_SIZE
          THEN ~db_given /\ Rejected(c, "Document too large")
          ELSE Stored(c, store_file(pid, eid, type, Blob("D", size),
                                    GenName(ext)), db_given)

DeleteFile ==
    \E relative_path \in DeletePaths :
       LET o == delete_file(relative_path)
       IN /\ stRes = NoStore
          /\ fsDirs' = o.dirs
          /\ fsData' = o.files
          /\ stRes' = [Called("delete_file", "", "", "", relative_path,
                              <<"">>, NoBlob)
                         EXCEPT !.raised = o.raised, !.ok = o.ret]
          /\ UNCHANGED <<gen, th, poolVars, pathVars>>

\* Something other than the store creates a directory inside a type
\* directory of the evidence tree.
MakeDir ==
    /\ \E d \in fsDirs :
         /\ Len(d) = Len(EVIDENCE_DIR) + 3
         /\ IsPrefix(EVIDENCE_DIR, d)
         /\ Append(d, "sub") \notin fsDirs \cup DOMAIN fsData
         /\ fsDirs' = fsDirs \cup {Append(d, "sub")}
    /\ stRes' = NoStore
    /\ UNCHANGED <<fsData, gen, th, poolVars, pathVars>>

\* The caller has the outcome of its call.
Return ==
    /\ stRes # NoStore
    /\ stRes' = NoStore
    /\ UNCHANGED <<fsDirs, fsData, gen, th, poolVars, pathVars>>

\* ------------------------------------- store_file and delete_file, step by step
\* Two threads work in one project/entity/type directory.  File names are
\* unique per call in the program; here each thread stores its own file.
RaceDir == EVIDENCE_DIR \o <<"1", "1", "screenshot">>
FileOf(t) == Append(RaceDir, "f" \o ToString(t))
NthParent(p, i) == SubSeq(p, 1, Len(p) - i)

SetThread(t, f) ==
    /\ th' = [th EXCEPT ![t] = f]
    /\ UNCHANGED <<stRes, gen, poolVars, pathVars>>

\* store_file: d = evidence_dir_for(...), that is the type check and
\* d.mkdir(parents=True, exist_ok=True)
ST_Mkdir(t) ==
    /\ th[t].pc = "idle" /\ th[t].n < MaxRaceOps
    /\ fsDirs' = fsDirs \cup Prefixes(RaceDir)
    /\ UNCHANGED fsData
    /\ SetThread(t, [IdleThread EXCEPT !.pc = "sf_write", !.op = "store_file",
                                       !.file = FileOf(t), !.n = th[t].n + 1])

\* filepath.write_bytes(data): open() raises FileNotFoundError when the
\* directory is gone; return evidence_path_relative(...)
ST_Write(t) ==
    /\ th[t].pc = "sf_write"
    /\ IF Parent(th[t].file) \in fsDirs
       THEN /\ fsData' = [p \in DOMAIN fsData \cup {th[t].file} |->
                            IF p = th[t].file THEN Blob("A", t) ELSE fsData[p]]
            /\ SetThread(t, [th[t] EXCEPT !.pc = "idle", !.ret = TRUE])
       ELSE /\ UNCHANGED fsData
            /\ SetThread(t, [th[t] EXCEPT !.pc = "idle", !.raised = "write_bytes"])
    /\ UNCHANGED fsDirs

\* delete_file: abs_path = evidence_path_absolute(relative_path);
\* if abs_path.exists(): ... else return False
DF_Exists(t) ==
    /\ th[t].pc = "idle" /\ th[t].n < MaxRaceOps
    /\ \E u \in RaceThreads :
         LET r == evidence_path_absolute(
                      RelPath(FALSE, SubSeq(FileOf(u), Len(EVIDENCE_DIR) + 1,
                                            Len(FileOf(u)))))
             f == [IdleThread EXCEPT !.op = "delete_file", !.file = r.path,
                                     !.n = th[t].n + 1]
         IN /\ ~r.raised
            /\ SetThread(t, IF r.path \in DOMAIN fsData \cup fsDirs
                            THEN [f EXCEPT !.pc = "df_unlink"]
                            ELSE f)
    /\ UNCHANGED <<fsDirs, fsData>>

\* abs_path.unlink(): raises FileNotFoundError when the file is gone
DF_Unlink(t) ==
    /\ th[t].pc = "df_unlink"
    /\ IF th[t].file \in DOMAIN fsData
       THEN /\ fsData' = [p \in DOMAIN fsData \ {th[t].file} |-> fsData[p]]
            /\ SetThread(t, [th[t] EXCEPT !.pc = "df_check", !.i = 1])
       ELSE /\ UNCHANGED fsData
            /\ SetThread(t, [th[t] EXCEPT !.pc = "idle", !.raised = "unlink"])
    /\ UNCHANGED fsDirs

\* the loop goes to the next of the three parents, or "return True"
NextParent(f) ==
    IF f.i < 3 THEN [f EXCEPT !.pc = "df_check", !.i = f.i + 1]
    ELSE [f EXCEPT !.pc = "idle", !.ret = TRUE]

\* if parent != EVIDENCE_DIR and parent.exists() and not any(parent.iterdir())
DF_Check(t) ==
    /\ th[t].pc = "df_check"
    /\ LET parent == NthParent(th[t].file, th[t].i)
       IN SetThread(t, IF /\ parent # EVIDENCE_DIR
                          /\ parent \in fsDirs
                          /\ IsEmptyDir(parent, fsDirs, DOMAIN fsData)
                       THEN [th[t] EXCEPT !.pc = "df_rmdir"]
                       ELSE NextParent(th[t]))
    /\ UNCHANGED <<fsDirs, fsData>>

\* parent.rmdir(): raises when the directory is gone or no longer empty
DF_Rmdir(t) ==
    /\ th[t].pc = "df_rmdir"
    /\ LET parent == NthParent(th[t].file, th[t].i)
       IN IF parent \in fsDirs /\ IsEmptyDir(parent, fsDirs, DOMAIN fsData)
          THEN /\ fsDirs' = fsDirs \ {parent}
               /\ SetThread(t, NextParent(th[t]))
          ELSE /\ UNCHANGED fsDirs
               /\ SetThread(t, [th[t] EXCEPT !.pc = "idle", !.raised = "rmdir"])
    /\ UNCHANGED fsData

\* Threads storing and deleting evidence files at the same time.
NextRace ==
    \E t \in RaceThreads :
        \/ ST_Mkdir(t) \/ ST_Write(t)
        \/ DF_Exists(t) \/ DF_Unlink(t) \/ DF_Check(t) \/ DF_Rmdir(t)

\* ----------------------------------------------------- _generate_filename
RECURSIVE Digits(_)
\* str() of a number: its decimal digits
Digits(n) == IF n < 10 THEN <<n>> ELSE Append(Digits(n \div 10), n % 10)

Min(a, b) == IF a < b THEN a ELSE b
ExtLen(ext) == IF ext = ".html" THEN 5 ELSE 4

\* _generate_filename, for a prefix of prefix_len characters, with ts the
\* second of datetime.now() and hashed the text given to md5.  The name is
\* prefix, "_" and the 15 characters of ts, "_" and the first 8 hex digits of
\* the hash, then the extension; a name longer than MAX_FILENAME_LENGTH is
\* cut to its first MAX_FILENAME_LENGTH - len(extension) characters plus the
\* extension.  The record tells how many characters of each part are kept;
\* two hashes are taken to differ whenever the hashed texts differ.
generate_filename(prefix_len, ext, ts, hashed) ==
    LET keep == IF prefix_len + 16 + 9 + ExtLen(ext) > MAX_FILENAME_LENGTH
                THEN MAX_FILENAME_LENGTH - ExtLen(ext)
                ELSE prefix_len + 16 + 9
        kp == Min(prefix_len, keep)
        kt == Min(16, keep - kp)
        ks == Min(9, keep - kp - kt)
    IN [prefix |-> kp,
        ts_kept |-> kt, ts |-> IF kt <= 1 THEN -1 ELSE ts,
        suffix_kept |-> ks, suffix_of |-> IF ks <= 1 THEN <<>> ELSE hashed,
        ext |-> ext]

\* A thread calls _generate_filename: time.time() and datetime.now() read the
\* clock, threading.get_ident() gives the thread's ident.
ThreadIds == {2, 12}
PrefixLens == {5, 300}
GenerateFilename ==
    /\ Len(gen.log) < MaxNames
    /\ \E tid \in ThreadIds, prefix_len \in PrefixLens,
          ext \in {".png", ".html"} :
          gen' = [gen EXCEPT !.log = Append(@,
                    [tid |-> tid, prefix |-> prefix_len, ext |-> ext,
                     second |-> gen.now \div TicksPerSecond,
                     name |-> generate_filename(prefix_len, ext,
                                  gen.now \div TicksPerSecond,
                                  Digits(gen.now) \o Digits(tid))])]
    /\ UNCHANGED <<fsDirs, fsData, stRes, th, poolVars, pathVars>>

\* The clock advances by one step of its resolution.
Tick ==
    /\ gen.now < MaxNow
    /\ gen' = [gen EXCEPT !.now = @ + 1]
    /\ UNCHANGED <<fsDirs, fsData, stRes, th, poolVars, pathVars>>

NextName == GenerateFilename \/ Tick

\* validate_upload called on its own, with any file name and size
UploadPieces == {"", "a", "png", "PNG", "exe"}
ValidateCall ==
    /\ \E filename \in UNION {[1..n -> UploadPieces] : n \in 1..MaxPieces},
          size \in UploadSizes :
          LET v == validate_upload(filename, size)
          IN stRes' = [Called("validate_upload", "", "", "",
                              RelPath(FALSE, <<>>), filename, Blob("", size))
                         EXCEPT !.ok = v.ok, !.error = v.reason]
    /\ UNCHANGED <<fsDirs, fsData, gen, th, poolVars, pathVars>>

NextUpload == ValidateCall

\* The evidence store used directly, by uploads and by document captures.
NextStore ==
    StoreFile \/ StoreUpload \/ CaptureDocument \/ DeleteFile \/ MakeDir
    \/ Return

\* Worker threads capturing concurrently, and the shutdown hook.
NextPool ==
    \/ \E w \in Workers : CaptureStep(w)
    \/ CloserStep
Next == NextPool

\* One worker thread making captures and scrapes, and the shutdown hook.
NextSoloPool ==
    \/ CaptureStep(1)
    \/ ScrapeStep(1)
    \/ CloserStep
NextSolo == NextSoloPool

\* One worker thread making captures and closing its own browser, and the
\* shutdown hook.
NextShut ==
    \/ CaptureStep(1)
    \/ StartClose(1) \/ CB_Lock(1) \/ CB_Pop(1) \/ CB_Close(1) \/ CB_Stop(1)
    \/ CloserStep

\* Path resolution against a file system whose links change.
NextPath == ResolveCall \/ Symlink \/ Unlink

vars == <<poolVars, pathVars, storeVars>>

Spec == Init /\ [][Next]_vars

SpecSolo == Init /\ [][NextSolo]_vars

SpecShut == Init /\ [][NextShut]_vars

SpecPath == Init /\ [][NextPath]_vars

SpecStore == Init /\ [][NextStore]_vars

SpecUpload == Init /\ [][NextUpload]_vars

SpecName == Init /\ [][NextName]_vars

SpecRace == Init /\ [][NextRace]_vars

\* ====================================================================
\* Claims
\* ====================================================================
Returned(w) == wk[w].pc = "idle" /\ result[w].kind # "none"
HasFileOfCall(w) == \E t \in {"screenshot", "page_archive"} : PathOf(w, t) \in disk

\* C1: when page.content() fails after the screenshot was stored, the result
\* of capture_website reports failure with that error and its evidence_paths
\* is exactly the stored screenshot's path, the file being on disk.
C1_PartialFailureListsScreenshot ==
    \A w \in Workers :
        (Returned(w) /\ result[w].kind = "result"
                     /\ result[w].error = ErrExc("content"))
        => /\ ~result[w].success
           /\ PathOf(w, "screenshot") \in disk
           /\ result[w].paths = <<PathOf(w, "screenshot")>>

\* C2: capture_website never raises: whatever driver call fails, the caller
\* gets a CaptureResult, and a failed one carries a non-empty error.
C2_CaptureNeverRaises ==
    \A w \in Workers :
        (Returned(w) /\ wk[w].op = "capture")
        => /\ result[w].kind = "result"
           /\ (~result[w].success => result[w].error # NoErr)

\* C3: a context opened by a capture or scrape is closed by the time the
\* call delivers its outcome, on every path.
C3_ContextClosedAtReturn ==
    \A w \in Workers :
        (Returned(w) /\ wk[w].ctx) => CtxOf(w) \notin openCtx

HttpResult(w) ==
    Result("result", FALSE, ErrHTTP(wk[w].nav), <<>>,
           [keys |-> InitMeta.keys \cup {"status_code", "final_url"},
            status_code |-> wk[w].nav])

C5_DeadlineIsDeterministic ==
    \A w \in Workers :
        (Returned(w) /\ wk[w].cancelled)
        => /\ result[w].kind = "result"
           /\ ~result[w].success
           /\ result[w].error = ErrDeadline(wk[w].op)
           /\ result[w].ids = <<>>
           /\ \A t \in {"screenshot", "page_archive"} : PathOf(w, t) \notin db

\* C6: _get_browser returns the pooled handle, launching nothing, exactly when
\* the slot holds a connected handle younger than the TTL; otherwise (absent,
\* disconnected, or age >= TTL) it goes on to drop the old handle, try to close
\* it and launch; when it returns after launching, the handle is a new one,
\* launched by this call and stored in the worker's slot.
C6_Decision ==
    \A w \in Workers :
        /\ (wk[w].pc = "gb_get" /\ wk'[w].pc # "gb_get")
             => IF pool[Tid(w)] = NoEntry
                THEN wk'[w].pc = "gb_start"
                ELSE wk'[w].pc = "gb_check" /\ wk'[w].entry = pool[Tid(w)]
        /\ (wk[w].pc = "gb_check" /\ wk'[w].pc # "gb_check")
             => IF /\ wk[w].entry.h \in connected'
                   /\ wk[w].now - wk[w].entry.created_at < BROWSER_MAX_AGE
                THEN /\ wk'[w].pc = "new_context"
                     /\ wk'[w].browser = wk[w].entry.h
                     /\ wk'[w].launches = 0
                     /\ started' = started /\ launched' = launched
                     /\ pool' = pool
                ELSE /\ wk'[w].pc = "gb_lock2"
                     /\ wk'[w].old = wk[w].entry.h
C6_Returned ==
    \A w \in Workers :
        wk[w].pc = "new_context"
        => IF wk[w].reused
           THEN /\ wk[w].launches = 0
                /\ wk[w].browser \in launched
                /\ cs.pc = "idle" => pool[Tid(w)].h = wk[w].browser
           ELSE /\ wk[w].launches = 1
                /\ wk[w].browser \in launched
                /\ launchedBy[wk[w].browser] = w
                /\ wk[w].browser # wk[w].old
                /\ wk[w].old # 0 => wk[w].old \in closeTried
                /\ cs.pc = "idle" => pool[Tid(w)].h = wk[w].browser
C6_AcquireReusesWithinTTL == [][C6_Decision]_vars /\ []C6_Returned
\* an acquire found a still connected handle of age >= TTL and returned another
C6_Witness ==
    \E w \in Workers :
        /\ wk[w].pc = "new_context" /\ ~wk[w].reused
        /\ wk[w].old # 0 /\ wk[w].old \in connected

InSession(w) ==
    wk[w].pc \in {"new_context", "new_page", "goto", "wait", "title",
                  "screenshot", "evaluate", "content", "sc_query", "sc_attr",
                  "sc_evaluate", "ctx_close"}

\* C7: captures running on distinct workers never use the same browser handle;
\* the handle a worker uses was launched by that worker, and the handle pooled
\* under a worker's key was launched by that worker.
C7_NoSharedHandle ==
    /\ \A w \in Workers :
         InSession(w) => /\ wk[w].browser \in launched
                         /\ launchedBy[wk[w].browser] = w
    /\ \A w \in Workers :
         pool[Tid(w)] # NoEntry => launchedBy[pool[Tid(w)].h] = w
    /\ \A w1, w2 \in Workers :
         (w1 # w2 /\ InSession(w1) /\ InSession(w2))
         => wk[w1].browser # wk[w2].browser
C7_Witness ==
    \A w \in Workers : InSession(w) /\ wk[w].pc = "screenshot"

\* C8: when the browser launch of _get_browser fails, the capture returns
\* success=false with "Browser launch failed: <cause>" after exactly one launch
\* attempt, with no context opened, nothing stored, and the worker's slot absent.
C8_LaunchFailure ==
    \A w \in Workers :
        (Returned(w) /\ result[w].error.tag = "Browser launch failed")
        => /\ result[w] = LaunchFailed(result[w].error.cause)
           /\ wk[w].launches = (IF result[w].error.cause = "launch" THEN 1 ELSE 0)
           /\ ~wk[w].ctx
           /\ CtxOf(w) \notin openCtx
           /\ wk[w].stored = {} /\ ~HasFileOfCall(w)
           /\ wk[w].extracted = {}
           /\ pool[Tid(w)] = NoEntry
\* the launch failed while a stale handle was being replaced
C8_Witness ==
    \E w \in Workers :
        /\ Returned(w) /\ result[w].error = ErrLaunch("launch")
        /\ wk[w].old # 0

\* C9: when close_browser_sync has returned, close() and stop() have both been
\* attempted on every handle it found pooled, also after a failing close();
\* if no _get_browser call overlapped it, the pool map is empty.
C9_ReleaseAll ==
    cs.pc = "done"
    => /\ \A i \in DOMAIN cs.entries :
            /\ cs.entries[i].h \in cs.closed
            /\ cs.entries[i].h \in cs.stopped
       /\ ~cs.overlap => \A t \in Workers : pool[t] = NoEntry
\* two handles were pooled and closing the first one failed
C9_Witness ==
    /\ cs.pc = "done" /\ ~cs.overlap
    /\ Len(cs.entries) = 2
    /\ cs.entries[1].h \in cs.failed

\* C10: evidence_path_absolute either raises or returns a path that is the
\* evidence root or below it: the returned path is fully resolved (following it
\* again through the file system leads nowhere else) and has the real location
\* of the evidence root as a prefix, whatever '..' segments, absolute argument
\* or symbolic links were involved.
C10_ResolvedUnderRoot ==
    (pathRes.out # NoOutcome /\ ~pathRes.out.raised)
    => /\ IsPrefix(Resolve(<<>>, EVIDENCE_DIR, MaxHops), pathRes.out.path)
       /\ Resolve(<<>>, pathRes.out.path, MaxHops) = pathRes.out.path
       /\ \A i \in DOMAIN pathRes.out.path :
            pathRes.out.path[i] \notin {".", ".."}
\* a path through a link that leads back inside, with a '..' segment, accepted
C10_Witness ==
    /\ pathRes.out # NoOutcome /\ ~pathRes.out.raised
    /\ \E i \in DOMAIN pathRes.arg.segs : pathRes.arg.segs[i] = ".."
    /\ \E i \in DOMAIN pathRes.arg.segs : pathRes.arg.segs[i] = "ln"
    /\ fsLinks[<<"data">>] # NoLink
    /\ pathRes.out.path = <<"mnt", "evidence", "1">>

\* C11: every relative path that contains a '..' segment makes
\* evidence_path_absolute raise the path-traversal error (and so delete_file,
\* file_exists and file_size called with it touch nothing).
C11_DotDotRaises ==
    (/\ pathRes.out # NoOutcome
     /\ \E i \in DOMAIN pathRes.arg.segs : pathRes.arg.segs[i] = "..")
    => pathRes.out.raised

\* C12: every file written through store_file (from capture_website,
\* capture_document, store_upload or a direct call with any file name) lies
\* under the evidence root; a write that would land outside is rejected.
C12_FilesUnderRoot ==
    \A p \in DOMAIN fsData : IsPrefix(EVIDENCE_DIR, p)

\* C13: for every allowed evidence type and every file name (a relative name
\* without '.' or '..' segments; a one-component name is always stored, one
\* with a subdirectory when that directory exists), store_file returns exactly
\* "{project_id}/{entity_id}/{evidence_type}/{filename}", and the file at
\* evidence_path_absolute of the returned path exists and holds the data that
\* was passed, byte for byte (so file_size is len(data)).
C13_StoreReadRoundTrip ==
    (/\ stRes.op = "store_file"
     /\ stRes.type \in ALLOWED_EVIDENCE_TYPES
     /\ ~stRes.filename.abs
     /\ \A i \in DOMAIN stRes.filename.segs :
           stRes.filename.segs[i] \notin {".", ".."})
    => /\ Len(stRes.filename.segs) = 1 => ~stRes.raised
       /\ ~stRes.raised =>
            /\ stRes.path = RelPath(FALSE,
                                 <<stRes.pid, stRes.eid, stRes.type>>
                                     \o stRes.filename.segs)
            /\ LET r == evidence_path_absolute(stRes.path)
               IN /\ ~r.raised
                  /\ r.path \in DOMAIN fsData
                  /\ fsData[r.path] = stRes.data
                  /\ fsData[r.path].len = stRes.data.len
\* a file stored in an existing subdirectory, next to another file
C13_Witness ==
    /\ stRes.op = "store_file" /\ ~stRes.raised
    /\ stRes.filename.segs = <<"sub", "f">>
    /\ stRes.data = Blob("B", 2)
    /\ Cardinality(DOMAIN fsData) = 2

\* C14: delete_file on an existing file at any depth under the evidence root
\* removes the file and every ancestor directory strictly below the root that
\* has become empty; the root itself stays, directories that still have
\* entries stay, and no other file is changed.
C14_DeletePrunes ==
    [][(stRes'.op = "delete_file" /\ stRes'.ok) =>
         LET target == evidence_path_absolute(stRes'.filename).path
             above == {d \in Prefixes(target) \ {target} :
                          IsPrefix(EVIDENCE_DIR, d) /\ d # EVIDENCE_DIR}
         IN /\ target \in DOMAIN fsData
            /\ DOMAIN fsData' = DOMAIN fsData \ {target}
            /\ \A q \in DOMAIN fsData' : fsData'[q] = fsData[q]
            /\ EVIDENCE_DIR \in fsDirs'
            /\ fsDirs \ above \subseteq fsDirs'
            /\ fsDirs' \subseteq fsDirs
            /\ \A d \in above :
                  d \in fsDirs' <=> ~IsEmptyDir(d, fsDirs', DOMAIN fsData')
      ]_vars

\* C15: delete_file is idempotent.  Called with the path of a file or of
\* nothing, it returns True exactly when the file existed when it was called
\* and False otherwise, a call that returns False changes nothing, and right
\* after a call that returned True a second call with the same path returns
\* False and leaves the evidence tree as it is.
C15_Step ==
    (stRes'.op = "delete_file" /\ ~stRes'.raised) =>
        /\ stRes'.ok <=>
               evidence_path_absolute(stRes'.filename).path \in DOMAIN fsData
        /\ ~stRes'.ok => (fsDirs' = fsDirs /\ fsData' = fsData)
C15_Again ==
    (stRes.op = "delete_file" /\ stRes.ok) =>
        delete_file(stRes.filename) = StoreOut(FALSE, FALSE, fsDirs, fsData)
C15_DeleteIdempotent == [][C15_Step]_vars /\ []C15_Again
\* a delete that returned True and pruned directories, another file remaining
C15_Witness ==
    /\ stRes.op = "delete_file" /\ stRes.ok
    /\ Cardinality(DOMAIN fsData) = 1
    /\ EVIDENCE_DIR \o <<"1", "1", "document">> \in fsDirs
    /\ EVIDENCE_DIR \o <<"1", "1", "screenshot">> \notin fsDirs

\* C16: validate_upload(filename, size) returns (True, "") if and only if the
\* file name is not empty, its lower-cased extension is in the upload
\* allow-list and 0 < size <= 50 MiB; otherwise it returns (False, reason)
\* with a reason that is not empty.
C16_ValidateUpload ==
    stRes.op = "validate_upload" =>
        /\ stRes.ok <=>
              /\ stRes.original # <<"">>
              /\ SuffixLower(stRes.original) \in ALLOWED_UPLOAD_EXTENSIONS
              /\ 0 < stRes.data.len
              /\ stRes.data.len <= 52428800
        /\ stRes.ok => stRes.error = ""
        /\ ~stRes.ok => stRes.error # ""
\* a file of exactly 50 MiB with an upper-case extension is accepted
C16_Witness ==
    /\ stRes.op = "validate_upload" /\ stRes.ok
    /\ stRes.original = <<"a", "PNG">>
    /\ stRes.data.len = 52428800

\* C17: validate_upload is the single gate for bytes that come from outside:
\* nothing from a manual upload (store_upload) or a downloaded document
\* (capture_document) is stored unless it is not empty, not over 50 MiB and
\* its file has an extension of the upload allow-list.
C17_UploadGate ==
    (stRes.op \in {"store_upload", "capture_document"} /\ stRes.ok)
    => /\ 0 < stRes.data.len
       /\ stRes.data.len <= 52428800
       /\ stRes.filename \in {GenName(e) : e \in ALLOWED_UPLOAD_EXTENSIONS}

\* C19: validation failures are rejected before any I/O.  When store_file
\* (evidence_dir_for) or store_upload is given an evidence type outside the
\* five allowed ones, or store_upload an empty file name, a disallowed
\* extension, an empty payload or one over 50 MiB, the call reports the
\* error, no directory or file of the evidence tree is created or changed,
\* and no evidence record is registered.
C19_Invalid ==
    \/ /\ stRes'.op \in {"store_file", "store_upload"}
       /\ stRes'.type \notin
              {"screenshot", "document", "page_archive", "video", "other"}
    \/ /\ stRes'.op = "store_upload"
       /\ \/ stRes'.original = <<"">>
          \/ SuffixLower(stRes'.original) \notin ALLOWED_UPLOAD_EXTENSIONS
          \/ stRes'.data.len = 0
          \/ stRes'.data.len > 52428800
C19_RejectedBeforeIO ==
    [][C19_Invalid =>
         /\ ~stRes'.ok /\ stRes'.error # ""
         /\ fsDirs' = fsDirs /\ fsData' = fsData
         /\ ~stRes'.registered]_vars
\* store_file refused an unknown evidence type in a tree that has a file
C19_Witness ==
    /\ stRes.op = "store_file" /\ stRes.type = "bogus" /\ stRes.raised
    /\ Cardinality(DOMAIN fsData) = 1
    /\ EVIDENCE_DIR \o <<"1", "1", "bogus">> \notin fsDirs

\* C20: a capture_website call whose navigation returns status 200 and whose
\* every step succeeds returns success=true with evidence_paths listing, in
\* this order, exactly one screenshot path and, when save_html is true,
\* exactly one page_archive path (length 2; length 1 otherwise); each listed
\* path is on disk at return and metadata has status_code (200) and title.
C20_AllStepsOk(w) ==
    /\ Returned(w) /\ wk[w].op = "capture" /\ wk[w].nav = 200
    /\ {"title", "screenshot", "evaluate"} \subseteq wk[w].extracted
    /\ wk[w].save_html => "content" \in wk[w].extracted
    /\ result[w].kind = "result" /\ ~wk[w].cancelled
C20_FullCapture ==
    \A w \in Workers :
        C20_AllStepsOk(w)
        => /\ result[w].success
           /\ result[w].error = NoErr
           /\ result[w].paths =
                 IF wk[w].save_html
                 THEN <<PathOf(w, "screenshot"), PathOf(w, "page_archive")>>
                 ELSE <<PathOf(w, "screenshot")>>
           /\ \A i \in DOMAIN result[w].paths : result[w].paths[i] \in disk
           /\ {"status_code", "title"} \subseteq result[w].meta.keys
           /\ result[w].meta.status_code = 200
\* a full capture with the HTML archive, on a reused browser
C20_Witness ==
    /\ C20_AllStepsOk(1) /\ wk[1].save_html /\ wk[1].reused
    /\ Len(result[1].paths) = 2

\* C18: two calls of _generate_filename with the same prefix and extension
\* made within the same clock second, from different threads or from the
\* same thread, never return the same name.
C18_NamesUnique ==
    \A i, j \in DOMAIN gen.log :
        (/\ i < j
         /\ gen.log[i].prefix = gen.log[j].prefix
         /\ gen.log[i].ext = gen.log[j].ext
         /\ gen.log[i].second = gen.log[j].second)
        => gen.log[i].name # gen.log[j].name

\* C21: capture_document enforces the 50 MiB limit while it reads the body.
\* It never holds more than the limit plus one read chunk (a chunk being
\* smaller than the limit) in memory, and a document over the limit ends in
\* success=false with the too-large error, no file stored and no record.
C21_CapAtRead ==
    stRes.op = "capture_document"
    => /\ stRes.data.len < MAX_UPLOAD_SIZE + MAX_UPLOAD_SIZE
       /\ stRes.data.len > MAX_UPLOAD_SIZE
            => /\ ~stRes.ok /\ stRes.error = "Document too large"
               /\ ~stRes.registered

SlowCall(w) ==
    wk[w].pc \in {"gb_close", "gb_stop", "gb_start", "gb_launch",
                  "cb_close", "cb_stop"}

\* C22: a thread that is executing a slow driver call of the pool (playwright
\* start, browser launch, browser.close, pw.stop) does not hold
\* _browser_lock; the lock is held only while the pool map is read or
\* changed, in _get_browser, _close_browser and close_browser_sync alike.
C22_LockOnlyAroundMap ==
    /\ \A w \in Workers : SlowCall(w) => lock # w
    /\ cs.pc = "close" => lock # Closer
    /\ \A w \in Workers :
         lock = w => wk[w].pc \in {"gb_get", "gb_pop", "gb_put", "cb_pop"}
    /\ lock = Closer => cs.pc = "snap"
\* the worker is closing its browser while the shutdown hook holds the lock
C22_Witness ==
    /\ wk[1].pc = "cb_close" /\ wk[1].entry.h \in launched
    /\ cs.pc = "snap" /\ lock = Closer

\* C29: no driver resource is orphaned by the pool.  Whenever no call of
\* _get_browser, _close_browser or close_browser_sync is in progress (and no
\* call was cut short by the deadline), every started playwright driver and
\* every launched browser is stored in the pool map or has had its stop,
\* respectively close, attempted.
C29_NoOrphans ==
    (/\ \A w \in Workers : wk[w].pc = "idle" /\ ~wk[w].cancelled
     /\ cs.pc \in {"idle", "done"})
    => /\ \A h \in started :
            (\E t \in Workers : pool[t].h = h) \/ h \in stopTried
       /\ \A h \in launched :
            (\E t \in Workers : pool[t].h = h) \/ h \in closeTried

\* C23: each worker thread owns one event loop, created on its first
\* synchronous call and reused afterwards: a call of capture_website or
\* scrape_page obtains from _get_or_create_loop the loop that the previous
\* call on the same thread obtained.
C23_LoopReused ==
    \A w \in Workers :
        wk[w].prev # NoLoop => wk[w].loop = wk[w].prev

\* C24: a failure of a cleanup step never replaces the primary outcome.  When
\* the session reaches its final context.close() with a result already
\* determined, the caller receives that result (or, if the deadline fires
\* meanwhile, the deadline failure), never the exception of close(); and when
\* closing the stale browser fails during recycling, _get_browser goes on to
\* start the fresh browser.
C24_Step ==
    \A w \in Workers :
        /\ (/\ wk[w].pc = "ctx_close" /\ wk'[w].pc = "idle"
            /\ wk[w].pending.kind = "result")
           => \/ [result'[w] EXCEPT !.ids = <<>>] = wk[w].pending
              \/ result'[w] = DeadlineResult(w)
        /\ (wk[w].pc = "gb_close" /\ wk'[w].pc # "gb_close")
           => wk'[w].pc \in {"gb_stop", "gb_start"} \/ wk'[w].cancelled
C24_CleanupNeverMasks == [][C24_Step]_vars

\* C25: navigation short-circuits extraction for every outcome that is not a
\* 2xx/3xx status.  When the navigation of a capture yields a status outside
\* 200-399 (a missing response, recorded as status 0, included) or fails,
\* nothing is extracted, nothing is stored, and the result is success=false.
C25_NonSuccessShortCircuits ==
    \A w \in Workers :
        (/\ wk[w].op = "capture"
         /\ \/ wk[w].nav # -1 /\ ~(200 <= wk[w].nav /\ wk[w].nav <= 399)
            \/ Returned(w) /\ result[w].error = ErrExc("goto"))
        => /\ wk[w].extracted = {}
           /\ wk[w].stored = {}
           /\ ~HasFileOfCall(w)
           /\ Returned(w) => ~result[w].success

\* C27: when the name built by _generate_filename would be longer than 200
\* characters, only the prefix is shortened: the returned name has at most
\* 200 characters and still ends with "_", the 15 characters of the
\* timestamp, "_", the 8 hex digits, and the extension.
C27_TruncationKeepsSuffix ==
    \A i \in DOMAIN gen.log :
        LET n == gen.log[i].name
        IN /\ n.prefix + n.ts_kept + n.suffix_kept + ExtLen(n.ext) <= 200
           /\ n.ts_kept = 16
           /\ n.suffix_kept = 9

\* C26: within one capture the steps occur in the order navigate, settle
\* wait, extract, persist.  Nothing is extracted before the navigation has
\* returned a status below 400 and the settle wait has completed; title,
\* screenshot, dimensions and HTML are extracted in this order; the screenshot
\* is stored only after its bytes were extracted, the HTML archive only with
\* its content extracted, and the screenshot is stored before the archive.
C26_Step ==
    \A w \in Workers :
        wk'[w].op = "capture" =>
          /\ (wk'[w].pc = "wait" /\ wk[w].pc # "wait")
               => /\ wk[w].pc = "goto"
                  /\ wk'[w].nav # -1 /\ wk'[w].nav < 400
          /\ (wk'[w].pc = "title" /\ wk[w].pc # "title") => wk[w].pc = "wait"
          /\ (wk'[w].extracted # wk[w].extracted /\ wk'[w].extracted # {})
               => /\ wk[w].nav # -1 /\ wk[w].nav < 400
                  /\ wk[w].pc \in {"title", "screenshot", "evaluate", "content"}
                  /\ wk'[w].extracted \in
                        {{"title"}, {"title", "screenshot"},
                         {"title", "screenshot", "evaluate"},
                         {"title", "screenshot", "evaluate", "content"}}
          /\ ("screenshot" \in wk'[w].stored \ wk[w].stored)
               => "screenshot" \in wk[w].extracted
          /\ ("page_archive" \in wk'[w].stored \ wk[w].stored)
               => /\ "content" \in wk'[w].extracted
                  /\ "screenshot" \in wk[w].stored
                  /\ PathOf(w, "screenshot") \in disk
          /\ PathOf(w, "page_archive") \in disk'
               => PathOf(w, "screenshot") \in disk'
C26_StepsInOrder == [][C26_Step]_vars
\* a capture that stored the screenshot and then the archive, about to close
C26_Witness ==
    /\ wk[1].op = "capture" /\ wk[1].pc = "ctx_close" /\ wk[1].nav = 200
    /\ wk[1].stored = {"screenshot", "page_archive"}
    /\ wk[1].paths = <<PathOf(1, "screenshot"), PathOf(1, "page_archive")>>

SnapHandles == {cs.entries[i].h : i \in DOMAIN cs.entries}

\* C30: shutdown is complete under interleaving.  No _get_browser call hands
\* out a handle that close_browser_sync has already removed from the pool map
\* for closing; and when a call that read the map before close_browser_sync
\* cleared it has returned and close_browser_sync has returned, the pool map
\* holds no handle on which close() was never attempted.
C30_HandOut ==
    \A w \in Workers :
        (wk[w].pc = "gb_check" /\ wk'[w].pc = "new_context")
        => wk'[w].browser \notin SnapHandles
C30_Left ==
    \A w \in Workers :
        (/\ cs.pc = "done" /\ wk[w].pc = "idle"
         /\ wk[w].old # 0 /\ wk[w].old \in SnapHandles)
        => (pool[Tid(w)] = NoEntry \/ pool[Tid(w)].h \in closeTried)
C30_ShutdownComplete == [][C30_HandOut]_vars /\ []C30_Left

\* C28: directory-pruning races are harmless.  Under any interleaving of
\* store_file and delete_file calls made by different threads on files of one
\* project/entity/type directory (two delete_file calls on the same path
\* included), no call raises because of pruning (no rmdir of delete_file
\* fails, no write of store_file finds its directory gone) and every
\* store_file call ends with its file present with the full payload.
C28_RacesHarmless ==
    \A t \in RaceThreads :
        (th[t].pc = "idle" /\ th[t].op # "none")
        => /\ th[t].raised \notin {"rmdir", "write_bytes"}
           /\ th[t].op = "store_file" => th[t].ret

====
